---- MODULE Spec2Model ----
(***************************************************************************)
(* Model of src/utils.ts: the hyper-key sublayer compiler                  *)
(* (createHyperSubLayer, createHyperSubLayers) and the remapper that runs  *)
(* the rules it emits.                                                     *)
(*                                                                         *)
(* JavaScript objects whose keys are enumerated or spread (the top-level   *)
(* map, a sublayer's command map, a LayerCommand, a Manipulator) are       *)
(* sequences of properties [key, value] in creation order.  Object         *)
(* literals of fixed shape (from, set_variable, a condition) are records.  *)
(* A value whose typeof the code tests carries its type tag.               *)
(***************************************************************************)
EXTENDS Naturals, Sequences, FiniteSets, TLC

VARIABLES
    subLayers,            \* argument of createHyperSubLayers (declared order)
    pc,                   \* "start" | "returned" | "threw"
    rules,                \* value createHyperSubLayers returned
    sublayer_key,         \* arguments of a direct createHyperSubLayer call
    commands,
    allSubLayerVariables,
    manipulators,         \* value createHyperSubLayer returned
    variables,            \* the remapper's variable store (name -> value)
    down,                 \* keys currently held down
    fired                 \* per key: index of the manipulator its key-down fired, 0 if none

vars == <<subLayers, pc, rules, sublayer_key, commands, allSubLayerVariables,
          manipulators, variables, down, fired>>

-----------------------------------------------------------------------------
(* Bounds of the model *)

MaxEntries == 3

MaxLayout == 2

MaxHeld == 3

MaxCommands == 2

MaxVariables == 2

-----------------------------------------------------------------------------
(* JavaScript objects *)

Range(s) == {s[i] : i \in 1..Len(s)}

Prop(k, v) == [key |-> k, value |-> v]

Undefined == [typeof |-> "undefined"]

StringValue(s) == [typeof |-> "string", str |-> s]

ObjectValue(o) == [typeof |-> "object", props |-> o]

Digits == <<"0", "1", "2", "3", "4", "5", "6", "7", "8", "9">>

\* A property name that is a canonical array index.  The digit keys are the
\* only such names among the key codes.
IsArrayIndex(k) == \E i \in 1..Len(Digits) : Digits[i] = k

DeclaredKeys(obj) == [i \in 1..Len(obj) |-> obj[i].key]

\* Object.keys: integer-like names first, in ascending numeric order, then the
\* other names in creation order.
ObjectKeys(obj) ==
    SelectSeq(Digits, LAMBDA d : d \in Range(DeclaredKeys(obj)))
        \o SelectSeq(DeclaredKeys(obj), LAMBDA k : ~IsArrayIndex(k))

\* "k in obj"
In(k, obj) == \E i \in 1..Len(obj) : obj[i].key = k

\* obj[k]
Get(obj, k) == obj[CHOOSE i \in 1..Len(obj) : obj[i].key = k].value

\* Object.entries
ObjectEntries(obj) ==
    LET keys == ObjectKeys(obj)
    IN  [i \in 1..Len(keys) |-> Prop(keys[i], Get(obj, keys[i]))]

\* obj[p.key] = p.value: an existing property keeps its place
Define(obj, p) ==
    IF In(p.key, obj)
    THEN [i \in 1..Len(obj) |-> IF obj[i].key = p.key THEN p ELSE obj[i]]
    ELSE Append(obj, p)

RECURSIVE Assign(_, _)
Assign(obj, props) ==
    IF props = <<>> THEN obj
    ELSE Assign(Define(obj, Head(props)), Tail(props))

\* The object literal { ...spread, p1, p2, ... }
Literal(spread, props) == Assign(<<>>, ObjectEntries(spread) \o props)

RECURSIVE Join(_, _)
Join(strs, sep) ==
    IF strs = <<>> THEN ""
    ELSE IF Len(strs) = 1 THEN strs[1]
    ELSE strs[1] \o sep \o Join(Tail(strs), sep)

-----------------------------------------------------------------------------
(* src/utils.ts *)

generateSubLayerVariableName(key) == "hyper_sublayer_" \o key

open(what) ==
    << Prop("to", [i \in 1..Len(what) |-> [shell_command |-> "open " \o what[i]]]),
       Prop("description", "Open " \o Join(what, " & ")) >>

VariableIf(name, value) == [type |-> "variable_if", name |-> name, value |-> value]

\* Mutant: the toggle without its to_after_key_up.
ToggleManipulator_NoKeyUp(key, subLayerVariableName, variableNames) ==
    << Prop("description", "Toggle Hyper sublayer " \o key),
       Prop("type", "basic"),
       Prop("from", [key_code |-> key, modifiers |-> [optional |-> <<"any">>]]),
       Prop("to_if_alone",
            << [key_code |-> key,
                modifiers |-> <<"left_shift", "left_command",
                                "left_control", "left_option">>] >>),
       Prop("to",
            << [set_variable |-> [name |-> subLayerVariableName, value |-> 1]] >>),
       Prop("conditions",
            LET others == SelectSeq(variableNames,
                                    LAMBDA v : v # subLayerVariableName)
            IN  [i \in 1..Len(others) |-> VariableIf(others[i], 0)]
                    \o << VariableIf("hyper", 1) >>) >>

\* The first manipulator of a sublayer: sets the variable on key-down and
\* clears it after key-up.
ToggleManipulator(key, subLayerVariableName, variableNames) ==
    << Prop("description", "Toggle Hyper sublayer " \o key),
       Prop("type", "basic"),
       Prop("from", [key_code |-> key, modifiers |-> [optional |-> <<"any">>]]),
       Prop("to_if_alone",
            << [key_code |-> key,
                modifiers |-> <<"left_shift", "left_command",
                                "left_control", "left_option">>] >>),
       Prop("to_after_key_up",
            << [set_variable |-> [name |-> subLayerVariableName, value |-> 0]] >>),
       Prop("to",
            << [set_variable |-> [name |-> subLayerVariableName, value |-> 1]] >>),
       Prop("conditions",
            LET others == SelectSeq(variableNames,
                                    LAMBDA v : v # subLayerVariableName)
            IN  [i \in 1..Len(others) |-> VariableIf(others[i], 0)]
                    \o << VariableIf("hyper", 1) >>) >>

\* Mutant: the command object spread after the manipulator's own fields.
CommandManipulator_SpreadLast(cmds, command_key, subLayerVariableName) ==
    Assign(<< Prop("type", "basic"),
              Prop("from", [key_code |-> command_key,
                            modifiers |-> [optional |-> <<"any">>]]),
              Prop("conditions", << VariableIf(subLayerVariableName, 1) >>) >>,
           ObjectEntries(Get(cmds, command_key)))

\* One command of a sublayer.
CommandManipulator(cmds, command_key, subLayerVariableName) ==
    Literal(Get(cmds, command_key),
            << Prop("type", "basic"),
               Prop("from", [key_code |-> command_key,
                             modifiers |-> [optional |-> <<"any">>]]),
               Prop("conditions", << VariableIf(subLayerVariableName, 1) >>) >>)

\* Mutant: a command key equal to the sublayer key is dropped.
createHyperSubLayer_SkipOwnKey(key, cmds, variableNames) ==
    LET subLayerVariableName == generateSubLayerVariableName(key)
        keys == SelectSeq(ObjectKeys(cmds), LAMBDA k : k # key)
    IN  << ToggleManipulator(key, subLayerVariableName, variableNames) >>
            \o [i \in 1..Len(keys) |->
                    CommandManipulator(cmds, keys[i], subLayerVariableName)]

createHyperSubLayer(key, cmds, variableNames) ==
    LET subLayerVariableName == generateSubLayerVariableName(key)
        keys == ObjectKeys(cmds)
    IN  << ToggleManipulator(key, subLayerVariableName, variableNames) >>
            \o [i \in 1..Len(keys) |->
                    CommandManipulator(cmds, keys[i], subLayerVariableName)]

\* The filter deciding which entries get a variable.
IsSubLayerVariable(value) ==
    IF value.typeof = "undefined" THEN FALSE
    ELSE IF value.typeof = "string" THEN FALSE
    ELSE IF Len(SelectSeq(ObjectKeys(value.props), LAMBDA k : k # "to")) = 0 THEN FALSE
    ELSE TRUE

AllSubLayerVariables(layers) ==
    LET keys == SelectSeq(ObjectKeys(layers),
                          LAMBDA k : IsSubLayerVariable(Get(layers, k)))
    IN  [i \in 1..Len(keys) |-> generateSubLayerVariableName(keys[i])]

\* The rule of one entry; `"to" in value` needs value to be an object.
DirectRule(key, value, variableNames) ==
    [description |-> "Hyper Key + " \o key,
     manipulators |->
        << Literal(value,
               << Prop("type", "basic"),
                  Prop("from", [key_code |-> key,
                                modifiers |-> [optional |-> <<"any">>]]),
                  Prop("conditions",
                       << VariableIf("hyper", 1) >>
                           \o [i \in 1..Len(variableNames) |->
                                   VariableIf(variableNames[i], 0)]) >>) >>]

SubLayerRule(key, value, variableNames) ==
    [description |-> "Hyper Key sublayer \"" \o key \o "\"",
     manipulators |-> createHyperSubLayer(key, value, variableNames)]

EntryRule(key, value, variableNames) ==
    IF In("to", value.props)
    THEN DirectRule(key, value.props, variableNames)
    ELSE SubLayerRule(key, value.props, variableNames)

\* The `in` operator throws a TypeError on a right-hand side that is no object.
InThrows(value) == value.typeof # "object"

\* Mutant: rules are emitted for the entries that own a variable only.
createHyperSubLayers_VariablesOnly(layers) ==
    LET variableNames == AllSubLayerVariables(layers)
        entries == SelectSeq(ObjectEntries(layers),
                             LAMBDA e : IsSubLayerVariable(e.value))
    IN  IF \E i \in 1..Len(ObjectEntries(layers)) :
               InThrows(ObjectEntries(layers)[i].value)
        THEN [threw |-> "TypeError", value |-> <<>>]
        ELSE [threw |-> "",
              value |-> [i \in 1..Len(entries) |->
                            EntryRule(entries[i].key, entries[i].value,
                                      variableNames)]]

createHyperSubLayers(layers) ==
    LET variableNames == AllSubLayerVariables(layers)
        entries == ObjectEntries(layers)
    IN  IF \E i \in 1..Len(entries) : InThrows(entries[i].value)
        THEN [threw |-> "TypeError", value |-> <<>>]
        ELSE [threw |-> "",
              value |-> [i \in 1..Len(entries) |->
                            EntryRule(entries[i].key, entries[i].value,
                                      variableNames)]]

-----------------------------------------------------------------------------
(* The remapper: how the emitted rules are run *)

\* The rule that makes caps_lock the hyper key (rules.ts, outside utils.ts).
HyperKeyRule ==
    [description |-> "Hyper Key",
     manipulators |->
        << << Prop("description", "Caps Lock -> Hyper Key"),
              Prop("from", [key_code |-> "caps_lock",
                            modifiers |-> [optional |-> <<"any">>]]),
              Prop("to", << [set_variable |-> [name |-> "hyper", value |-> 1]] >>),
              Prop("to_after_key_up",
                   << [set_variable |-> [name |-> "hyper", value |-> 0]] >>),
              Prop("type", "basic") >> >>]

RECURSIVE Flatten(_)
Flatten(rs) ==
    IF rs = <<>> THEN <<>> ELSE Head(rs).manipulators \o Flatten(Tail(rs))

\* Every manipulator the remapper is configured with, in evaluation order.
AllManipulators(rs) == Flatten(<<HyperKeyRule>> \o rs)

\* All conditions of a manipulator hold (a conjunction).
ConditionsHold(m, vs) ==
    In("conditions", m) =>
        \A i \in 1..Len(Get(m, "conditions")) :
            LET c == Get(m, "conditions")[i]
            IN  c.type = "variable_if" => vs[c.name] = c.value

Matches(m, k, vs) == Get(m, "from").key_code = k /\ ConditionsHold(m, vs)

\* The first manipulator triggered by key k whose conditions hold; 0 if none.
FirstMatch(ms, k, vs) ==
    IF \E i \in 1..Len(ms) : Matches(ms[i], k, vs)
    THEN CHOOSE i \in 1..Len(ms) :
            /\ Matches(ms[i], k, vs)
            /\ \A j \in 1..(i - 1) : ~Matches(ms[j], k, vs)
    ELSE 0

\* Run a list of events: a set_variable assigns, the others leave the store alone.
RECURSIVE Apply(_, _)
Apply(vs, events) ==
    IF events = <<>> THEN vs
    ELSE LET e == Head(events)
         IN  Apply(IF "set_variable" \in DOMAIN e
                   THEN [vs EXCEPT ![e.set_variable.name] = e.set_variable.value]
                   ELSE vs,
                   Tail(events))

Events(m, field) == IF In(field, m) THEN Get(m, field) ELSE <<>>

-----------------------------------------------------------------------------
(* Inputs *)

\* Sequences of n distinct elements of S
Distinct(S, n) ==
    {s \in [1..n -> S] : \A i, j \in 1..n : i # j => s[i] # s[j]}

\* obj is an object of up to n properties, keys from K, values from V, declared
\* in any order
IsObject(obj, K, V, n) ==
    \E m \in 0..n : \E ks \in Distinct(K, m) : \E vs \in [1..m -> V] :
        obj = [i \in 1..m |-> Prop(ks[i], vs[i])]

Escape == << Prop("to", << [key_code |-> "escape"] >>) >>

Overriding ==
    << Prop("conditions", << VariableIf("hyper", 1) >>),
       Prop("to", << [shell_command |-> "open -a Finder"] >>),
       Prop("type", "mouse_motion_to_scroll") >>

TopKeys == {"o", "m", "x", "1", "0"}

BindingEntries ==
    { Undefined,
      StringValue("open -a Mail"),
      ObjectValue(open(<<"Mail">>)),
      ObjectValue(Escape),
      ObjectValue(<<>>),
      ObjectValue(<< Prop("g", open(<<"Chrome">>)) >>) }

LayoutKeys == {"o", "m", "x"}

LayoutEntries ==
    { ObjectValue(open(<<"Mail">>)),
      ObjectValue(Escape),
      ObjectValue(<<>>),
      ObjectValue(<< Prop("g", open(<<"Chrome">>)) >>),
      ObjectValue(<< Prop("m", open(<<"Mail">>)) >>) }

RemapperKeys == {"caps_lock", "g"} \cup LayoutKeys

VariableNames ==
    {"hyper"} \cup {generateSubLayerVariableName(k) : k \in TopKeys \cup LayoutKeys}

SubLayerKeys == {"o", "1"}

CommandKeys == {"o", "g", "1", "0"}

LayerCommands == { open(<<"Chrome">>), Escape, Overriding }

ListedVariables == {generateSubLayerVariableName(k) : k \in {"o", "m", "1"}}

-----------------------------------------------------------------------------
(* State machine *)

NoCall ==
    /\ sublayer_key = ""
    /\ commands = <<>>
    /\ allSubLayerVariables = <<>>
    /\ manipulators = <<>>

Idle ==
    /\ variables = [n \in VariableNames |-> 0]
    /\ down = {}
    /\ fired = [k \in RemapperKeys |-> 0]

Init ==
    /\ IsObject(subLayers, TopKeys, BindingEntries, MaxEntries)
    /\ pc = "start"
    /\ rules = <<>>
    /\ NoCall
    /\ Idle

InitRemapper ==
    /\ IsObject(subLayers, LayoutKeys, LayoutEntries, MaxLayout)
    /\ pc = "start"
    /\ rules = <<>>
    /\ NoCall
    /\ Idle

InitSubLayer ==
    /\ sublayer_key \in SubLayerKeys
    /\ IsObject(commands, CommandKeys, LayerCommands, MaxCommands)
    /\ \E n \in 0..MaxVariables : allSubLayerVariables \in [1..n -> ListedVariables]
    /\ manipulators = <<>>
    /\ subLayers = <<>>
    /\ pc = "start"
    /\ rules = <<>>
    /\ Idle

\* rules = createHyperSubLayers(subLayers)
CallCreateHyperSubLayers ==
    /\ pc = "start"
    /\ LET r == createHyperSubLayers(subLayers)
       IN  /\ pc' = IF r.threw = "" THEN "returned" ELSE "threw"
           /\ rules' = r.value
    /\ UNCHANGED <<subLayers, sublayer_key, commands, allSubLayerVariables,
                   manipulators, variables, down, fired>>

\* manipulators = createHyperSubLayer(sublayer_key, commands, allSubLayerVariables)
CallCreateHyperSubLayer ==
    /\ pc = "start"
    /\ manipulators' = createHyperSubLayer(sublayer_key, commands,
                                           allSubLayerVariables)
    /\ pc' = "returned"
    /\ UNCHANGED <<subLayers, rules, sublayer_key, commands,
                   allSubLayerVariables, variables, down, fired>>

\* Key k goes down: the first matching manipulator fires its "to".
KeyDown(k) ==
    /\ pc = "returned"
    /\ k \notin down
    /\ Cardinality(down) < MaxHeld
    /\ LET ms == AllManipulators(rules)
           i == FirstMatch(ms, k, variables)
       IN  /\ fired' = [fired EXCEPT ![k] = i]
           /\ variables' = IF i = 0 THEN variables
                           ELSE Apply(variables, Events(ms[i], "to"))
    /\ down' = down \cup {k}
    /\ UNCHANGED <<subLayers, pc, rules, sublayer_key, commands,
                   allSubLayerVariables, manipulators>>

\* Key k is released: the manipulator its key-down fired runs "to_after_key_up".
KeyUp(k) ==
    /\ pc = "returned"
    /\ k \in down
    /\ LET ms == AllManipulators(rules)
           i == fired[k]
       IN  variables' = IF i = 0 THEN variables
                        ELSE Apply(variables, Events(ms[i], "to_after_key_up"))
    /\ fired' = [fired EXCEPT ![k] = 0]
    /\ down' = down \ {k}
    /\ UNCHANGED <<subLayers, pc, rules, sublayer_key, commands,
                   allSubLayerVariables, manipulators>>

Next == CallCreateHyperSubLayers

NextRemapper ==
    \/ CallCreateHyperSubLayers
    \/ \E k \in RemapperKeys : KeyDown(k)
    \/ \E k \in RemapperKeys : KeyUp(k)

NextSubLayer == CallCreateHyperSubLayer

Spec == Init /\ [][Next]_vars

SpecRemapper == InitRemapper /\ [][NextRemapper]_vars

SpecSubLayer == InitSubLayer /\ [][NextSubLayer]_vars

-----------------------------------------------------------------------------
(* Vocabulary of the properties *)

Returned == pc = "returned"

VariableOf(k) == "hyper_sublayer_" \o k

\* A direct action: an object carrying a "to" list.
IsAction(value) == value.typeof = "object" /\ In("to", value.props)

\* A genuine sublayer: a sublayer map with at least one command key.
IsGenuine(value) ==
    value.typeof = "object" /\ ~In("to", value.props) /\ Len(value.props) > 0

\* A sublayer map with no command keys.
IsEmptyMap(value) == value.typeof = "object" /\ Len(value.props) = 0

EntryKeys == Range(DeclaredKeys(subLayers))

GenuineKeys == {k \in EntryKeys : IsGenuine(Get(subLayers, k))}

\* The rule emitted for key k: the one whose first manipulator k triggers.
RuleFor(k) ==
    rules[CHOOSE i \in 1..Len(rules) :
              Get(rules[i].manipulators[1], "from").key_code = k]

Conditions(m) == Get(m, "conditions")

Hyper == [type |-> "variable_if", name |-> "hyper", value |-> 1]

Off(k) == [type |-> "variable_if", name |-> VariableOf(k), value |-> 0]

On(k) == [type |-> "variable_if", name |-> VariableOf(k), value |-> 1]

AnyModifiers(k) == [key_code |-> k, modifiers |-> [optional |-> <<"any">>]]

ActiveSubLayers == {k \in LayoutKeys : variables[VariableOf(k)] = 1}

-----------------------------------------------------------------------------
(* Properties of the running rules (SpecRemapper) *)

\* C1: in every reachable state of the remapper at most one variable
\* hyper_sublayer_<key> has value 1.
MutualExclusion == Cardinality(ActiveSubLayers) <= 1

\* C10: a sublayer variable is 1 only while its key is held down, and the
\* release of key k leaves hyper_sublayer_<k> at 0.
NeverStuck ==
    /\ [](\A k \in LayoutKeys : variables[VariableOf(k)] = 1 => k \in down)
    /\ [][\A k \in LayoutKeys :
            (k \in down /\ k \notin down') => variables'[VariableOf(k)] = 0]_vars

\* C10's case: the hyper key was released while a sublayer key is still held
\* and its sublayer is active, with another sublayer key held beside it.
HyperReleasedFirst ==
    /\ Returned
    /\ "caps_lock" \notin down
    /\ \E k \in GenuineKeys : \E j \in GenuineKeys \ {k} :
          /\ variables[VariableOf(k)] = 1
          /\ {k, j} \subseteq down

-----------------------------------------------------------------------------
(* Properties of createHyperSubLayers (Spec) *)

\* C2: the registry holds hyper_sublayer_<k> exactly for the genuine
\* sublayers k (a direct action contributes none), in the order of the keys.
RegistryIsTheGenuineSubLayers ==
    pc # "start" =>
        LET registry == AllSubLayerVariables(subLayers)
        IN  /\ \A k \in EntryKeys :
                  VariableOf(k) \in Range(registry) <=> k \in GenuineKeys
            /\ registry = [i \in 1..Len(registry) |->
                   VariableOf(SelectSeq(ObjectKeys(subLayers),
                                        LAMBDA k : k \in GenuineKeys)[i])]

\* C3: the toggle of every emitted sublayer rule is guarded by hyper == 1 and
\* by hyper_sublayer_<j> == 0 for every other genuine sublayer j, never by
\* its own variable; its size is 1 + (genuine sublayers) - 1.
ToggleGuards ==
    Returned =>
        \A k \in EntryKeys : ~IsAction(Get(subLayers, k)) =>
            LET conds == Conditions(RuleFor(k).manipulators[1])
            IN  /\ Range(conds) = {Hyper} \cup {Off(j) : j \in GenuineKeys \ {k}}
                /\ Len(conds) = 1 + Cardinality(GenuineKeys) - 1
                /\ \A i \in 1..Len(conds) : conds[i].name # VariableOf(k)

\* C4: the manipulator of every direct rule is guarded by hyper == 1 followed
\* by hyper_sublayer_<j> == 0 for each genuine sublayer j.
DirectGuards ==
    Returned =>
        \A k \in EntryKeys : IsAction(Get(subLayers, k)) =>
            LET conds == Conditions(RuleFor(k).manipulators[1])
                genuine == SelectSeq(ObjectKeys(subLayers),
                                     LAMBDA j : j \in GenuineKeys)
            IN  /\ conds = <<Hyper>> \o [i \in 1..Len(genuine) |-> Off(genuine[i])]
                /\ Len(conds) = 1 + Cardinality(GenuineKeys)

\* C5: an entry x: {} contributes no variable, no other entry is guarded by
\* its variable, and its rule is a single direct manipulator triggered by x,
\* guarded by hyper == 1 and every sublayer variable == 0, with no actions
\* and no toggle of hyper_sublayer_x.
EmptyMapIsDirect ==
    Returned =>
        \A x \in EntryKeys : IsEmptyMap(Get(subLayers, x)) =>
            /\ VariableOf(x) \notin Range(AllSubLayerVariables(subLayers))
            /\ \A k \in EntryKeys \ {x} :
                  \A i \in 1..Len(RuleFor(k).manipulators) :
                      Off(x) \notin Range(Conditions(RuleFor(k).manipulators[i]))
            /\ Len(RuleFor(x).manipulators) = 1
            /\ LET m == RuleFor(x).manipulators[1]
               IN  /\ Get(m, "from") = AnyModifiers(x)
                   /\ Range(Conditions(m)) =
                          {Hyper} \cup {Off(j) : j \in GenuineKeys}
                   /\ Events(m, "to") = <<>>
                   /\ Events(m, "to_after_key_up") = <<>>

\* C6: createHyperSubLayers raises no error, also on a map with an entry whose
\* value is undefined or a string.
NoError == pc # "threw"

\* C7 as stated: the i-th rule is compiled from the i-th declared entry.
DeclaredOrder ==
    Returned =>
        /\ Len(rules) = Len(subLayers)
        /\ \A i \in 1..Len(rules) :
              LET k == subLayers[i].key
              IN  /\ Get(rules[i].manipulators[1], "from").key_code = k
                  /\ rules[i].description \in
                         {"Hyper Key + " \o k, "Hyper Key sublayer \"" \o k \o "\""}

Position(k) == CHOOSE i \in 1..Len(subLayers) : subLayers[i].key = k

Digit(k) == CHOOSE i \in 1..Len(Digits) : Digits[i] = k

\* Key a is emitted before key b: digit-named keys come first, in ascending
\* numeric order, then the other keys in declared order.
Before(a, b) ==
    IF IsArrayIndex(a) /\ IsArrayIndex(b) THEN Digit(a) < Digit(b)
    ELSE IF IsArrayIndex(a) # IsArrayIndex(b) THEN IsArrayIndex(a)
    ELSE Position(a) < Position(b)

\* C7, amended: exactly one rule per entry, each naming its key and triggered
\* by it; the rules of digit-named keys come first in ascending numeric order,
\* then those of the other keys in declared order.
EnumerationOrder ==
    Returned =>
        /\ Len(rules) = Len(subLayers)
        /\ \A k \in EntryKeys : \E i \in 1..Len(rules) :
              /\ Get(rules[i].manipulators[1], "from").key_code = k
              /\ rules[i].description \in
                     {"Hyper Key + " \o k, "Hyper Key sublayer \"" \o k \o "\""}
        /\ \A i, j \in 1..Len(rules) : i < j =>
              Before(Get(rules[i].manipulators[1], "from").key_code,
                     Get(rules[j].manipulators[1], "from").key_code)

\* C7's case: digit-named keys declared after a letter key, in descending order.
DigitKeysDeclaredLast ==
    /\ Returned
    /\ DeclaredKeys(subLayers) = <<"o", "1", "0">>
    /\ Len(rules) = 3

-----------------------------------------------------------------------------
(* Properties of createHyperSubLayer (SpecSubLayer) *)

\* C8: the result holds 1 + |keys(commands)| manipulators: the toggle of the
\* sublayer key first, then one per command key in the order of
\* Object.keys(commands), triggered by that key and carrying its "to" list.
ToggleThenCommands ==
    Returned =>
        LET keys == ObjectKeys(commands)
            toggle == manipulators[1]
        IN  /\ Len(manipulators) = 1 + Len(commands)
            /\ Get(toggle, "from") = AnyModifiers(sublayer_key)
            /\ Get(toggle, "to") =
                   << [set_variable |->
                          [name |-> VariableOf(sublayer_key), value |-> 1]] >>
            /\ Get(toggle, "to_after_key_up") =
                   << [set_variable |->
                          [name |-> VariableOf(sublayer_key), value |-> 0]] >>
            /\ Get(toggle, "to_if_alone") =
                   << [key_code |-> sublayer_key,
                       modifiers |-> <<"left_shift", "left_command",
                                       "left_control", "left_option">>] >>
            /\ \A i \in 1..Len(keys) :
                  /\ Get(manipulators[i + 1], "from") = AnyModifiers(keys[i])
                  /\ Get(manipulators[i + 1], "to") =
                         Get(Get(commands, keys[i]), "to")

\* C8's case: the sublayer key is one of its own command keys.
OwnKeyIsACommand ==
    /\ Returned
    /\ Len(commands) = MaxCommands
    /\ In(sublayer_key, commands)
    /\ Len(manipulators) = 1 + MaxCommands

\* C9: the conditions of every command manipulator are exactly
\* [hyper_sublayer_<k> == 1].
CommandGuard ==
    Returned =>
        \A i \in 2..Len(manipulators) :
            Conditions(manipulators[i]) = << On(sublayer_key) >>

\* C9's case: a command that carries its own conditions, among siblings.
CommandCarriesConditions ==
    /\ Returned
    /\ Len(allSubLayerVariables) = MaxVariables
    /\ \E i \in 1..Len(commands) : In("conditions", commands[i].value)
    /\ Len(manipulators) > 1

====
